---------------------------- MODULE Spec2Model ----------------------------
(***************************************************************************)
(* Model of the attachment retrieval pipeline of treestats-bot:            *)
(*   web.rs      discord_pull          (the HTTP handler)                  *)
(*   discord.rs  is_valid_snowflake, is_pcap_file, fetch_message,          *)
(*               download_attachment                                       *)
(* Strings are sequences of characters; a character is a one-character     *)
(* string, or "U+xxxx" for a character outside ASCII.                      *)
(***************************************************************************)
EXTENDS Integers, Sequences, FiniteSets, TLC

VARIABLES
    env,        \* result of std::env::var("DISCORD_OAUTH_TOKEN")
    pc,         \* pc[r]: where handler invocation r stands
    params,     \* params[r]: the path parameters (channel_id, message_id)
    calls,      \* calls[r]: the outbound network calls r has issued, in order
    fetched,    \* fetched[r]: upstream's answer to the message fetch
    checks,     \* checks[r]: the capture-file checks r has evaluated, in order,
                \* each with the number of calls r had issued before it
    dl,         \* dl[r]: upstream's answer to the attachment download
    buf,        \* buf[r]: the body chunks read so far by response.bytes()
    response,   \* response[r]: the external HTTP response
    sf,         \* input and result of one is_valid_snowflake call
    fs,         \* inputs and result of one find_server call
    bot         \* one invocation of Handler::message of the bot

vars == <<env, pc, params, calls, fetched, checks, dl, buf, response, sf, fs, bot>>

pullVars == <<env, pc, params, calls, fetched, checks, dl, buf, response>>

----------------------------------------------------------------------------
(* Bounds *)

\* longest identifier string tried by is_valid_snowflake
MaxIdLen == 21

\* number of concurrent handler invocations
NumReqs == 2

\* largest number of chunks in which a download body arrives
MaxChunks == 2

----------------------------------------------------------------------------
(* Characters and strings *)

AsciiDigits == {"0", "1", "2", "3", "4", "5", "6", "7", "8", "9"}

\* U+0663 is ARABIC-INDIC DIGIT THREE, U+00E9 is e-acute: two bytes each in UTF-8
NonAscii == {"U+0663", "U+00E9"}

\* char::is_ascii_digit
is_ascii_digit(c) == c \in AsciiDigits

\* the UTF-8 width of a character
Utf8Len(c) == IF c \in NonAscii THEN 2 ELSE 1

\* str::len: the length in bytes
RECURSIVE str_len(_)
str_len(s) == IF s = <<>> THEN 0 ELSE Utf8Len(Head(s)) + str_len(Tail(s))

\* str::ends_with
ends_with(s, suffix) ==
    /\ Len(suffix) <= Len(s)
    /\ SubSeq(s, Len(s) - Len(suffix) + 1, Len(s)) = suffix

is_valid_snowflake_no_upper(id) ==
    /\ id # <<>>
    /\ str_len(id) >= 17
    /\ \A i \in 1..Len(id) : is_ascii_digit(id[i])

is_valid_snowflake(id) ==
    /\ id # <<>>
    /\ str_len(id) >= 17
    /\ str_len(id) <= 19
    /\ \A i \in 1..Len(id) : is_ascii_digit(id[i])

DotPcap == <<".", "p", "c", "a", "p">>

DotPcapng == <<".", "p", "c", "a", "p", "n", "g">>

is_pcap_file(filename) ==
    ends_with(filename, DotPcap) \/ ends_with(filename, DotPcapng)

----------------------------------------------------------------------------
(* Inputs of is_valid_snowflake: every length up to MaxIdLen, all digits   *)
(* or with one character replaced by a letter or a non-ASCII character.    *)

Digits10 == <<"0", "1", "2", "3", "4", "5", "6", "7", "8", "9">>

DigitAt(i) == Digits10[((i * 7) % 10) + 1]

DigitString(n) == [i \in 1..n |-> DigitAt(i)]

OddChars == {"a", "U+0663", "U+00E9"}

SnowflakeInputs ==
    {DigitString(n) : n \in 0..MaxIdLen}
    \cup {[DigitString(n) EXCEPT ![p] = c] :
            <<n, p, c>> \in {t \in (1..MaxIdLen) \X (1..MaxIdLen) \X OddChars :
                                t[2] <= t[1]}}

SfInit == sf \in [s : SnowflakeInputs, called : {FALSE}, result : {FALSE}]

\* one call of is_valid_snowflake
Validate ==
    /\ ~sf.called
    /\ sf' = [sf EXCEPT !.called = TRUE, !.result = is_valid_snowflake(sf.s)]
    /\ UNCHANGED <<pullVars, fs, bot>>

----------------------------------------------------------------------------
(* The resolver and the bot, while they are not the subject *)

\* no find_server call is under way
FsOff ==
    [servers |-> <<>>, query |-> <<>>, sim |-> <<>>, called |-> TRUE, result |-> 0]

\* no message event is being handled
BotOff ==
    [pc |-> "off",
     msg |-> [author_bot |-> TRUE, channel_id |-> 0, id |-> 0, attachments |-> <<>>],
     events |-> <<>>, reply |-> "none", logged |-> "none"]

----------------------------------------------------------------------------
(* Values of the retrieval pipeline *)

Reqs == 1..NumReqs

MAX_ATTACHMENT_SIZE == 104857600

\* Result<String, VarError> of std::env::var
EnvValues ==
    {[ok |-> TRUE, value |-> "token"],
     [ok |-> FALSE, value |-> "NotPresent"],
     [ok |-> FALSE, value |-> "NotUnicode"]}

\* (StatusCode, String); NoError stands for the Ok side of a Result
Err(status, error) == [status |-> status, error |-> error]

NoError == Err(0, "")

NoResponse == [status |-> 0, error |-> "", body |-> <<>>]

\* axum's response for Err((status, Json(DiscordError { error })))
ErrResponse(e) == [status |-> e.status, error |-> e.error, body |-> <<>>]

\* axum's response for Ok(pcap_data): 200 with the bytes as the body
OkResponse(pcap_data) == [status |-> 200, error |-> "", body |-> pcap_data]

\* an outbound network call
FetchCall(channel_id, message_id, token) ==
    [kind |-> "fetch_message", channel_id |-> channel_id,
     message_id |-> message_id, auth |-> <<"Bot ", token>>, url |-> 0]

DownloadCall(url) ==
    [kind |-> "download", channel_id |-> <<>>, message_id |-> <<>>,
     auth |-> <<>>, url |-> url]

\* StatusCode::is_success
is_success_any(status) == status >= 200

is_success(status) == status >= 200 /\ status <= 299

----------------------------------------------------------------------------
(* fetch_message *)

\* the two snowflake checks at the head of fetch_message
validate_ids_channel_only(channel_id, message_id) ==
    IF ~is_valid_snowflake(channel_id)
    THEN Err(400, "Invalid channel ID format")
    ELSE NoError

validate_ids(channel_id, message_id) ==
    IF ~is_valid_snowflake(channel_id)
    THEN Err(400, "Invalid channel ID format")
    ELSE IF ~is_valid_snowflake(message_id)
    THEN Err(400, "Invalid message ID format")
    ELSE NoError

\* message.attachments.iter().any(|a| is_pcap_file(&a.filename))
has_pcap_unchecked(attachments) == TRUE

has_pcap(attachments) ==
    \E i \in 1..Len(attachments) : is_pcap_file(attachments[i].filename)

\* the match on the status of a non-2xx answer; body is in scope, and logged
status_error_swapped(status, body) ==
    CASE status = 401 -> Err(401, "Discord authentication failed (invalid or missing token)")
      [] status = 404 -> Err(403, "Access denied to Discord message")
      [] status = 403 -> Err(404, "Discord message not found")
      [] OTHER -> Err(500, "Discord API error")

status_error_leaks(status, body) ==
    CASE status = 401 -> Err(401, "Discord authentication failed (invalid or missing token)")
      [] status = 404 -> Err(404, "Discord message not found")
      [] status = 403 -> Err(403, "Access denied to Discord message")
      [] OTHER -> Err(500, body.text)

status_error(status, body) ==
    CASE status = 401 -> Err(401, "Discord authentication failed (invalid or missing token)")
      [] status = 404 -> Err(404, "Discord message not found")
      [] status = 403 -> Err(403, "Access denied to Discord message")
      [] OTHER -> Err(500, "Discord API error")

\* fetch_message from the answer of send() on: its Err, or NoError for Ok(message)
fetch_result(resp) ==
    IF resp.kind = "transport_error"
    THEN Err(500, "Failed to connect to Discord API")
    ELSE IF is_success(resp.status)
    THEN IF ~resp.body.schema_ok
         THEN Err(500, "Failed to parse Discord response")
         ELSE IF ~has_pcap(resp.body.attachments)
         THEN Err(400, "Message has no PCAP attachments (.pcap or .pcapng)")
         ELSE NoError
    ELSE status_error(resp.status, resp.body)

\* whether fetch_message reached its capture-file check
fetch_checked(resp) ==
    resp.kind = "response" /\ is_success(resp.status) /\ resp.body.schema_ok

----------------------------------------------------------------------------
(* discord_pull *)

\* message.attachments.iter().find(|a| a.filename.ends_with(".pcap") ||
\* a.filename.ends_with(".pcapng")): the position found, 0 for None
find_pcap_last(attachments) ==
    LET hits == {i \in 1..Len(attachments) :
                    \/ ends_with(attachments[i].filename, DotPcap)
                    \/ ends_with(attachments[i].filename, DotPcapng)}
    IN IF hits = {} THEN 0 ELSE CHOOSE i \in hits : \A j \in hits : j <= i

find_pcap(attachments) ==
    LET hits == {i \in 1..Len(attachments) :
                    \/ ends_with(attachments[i].filename, DotPcap)
                    \/ ends_with(attachments[i].filename, DotPcapng)}
    IN IF hits = {} THEN 0 ELSE CHOOSE i \in hits : \A j \in hits : i <= j

Respond(r, resp) ==
    /\ response' = [response EXCEPT ![r] = resp]
    /\ pc' = [pc EXCEPT ![r] = "done"]

\* discord_pull from its entry to the first suspension (send() in fetch_message)
DiscordPull(r, channel_id, message_id) ==
    /\ pc[r] = "idle"
    /\ params' = [params EXCEPT ![r] =
                    [channel_id |-> channel_id, message_id |-> message_id]]
    /\ IF ~env.ok
       THEN /\ Respond(r, ErrResponse(Err(401, "Discord OAuth token not configured")))
            /\ UNCHANGED calls
       ELSE LET e == validate_ids(channel_id, message_id) IN
            IF e # NoError
            THEN /\ Respond(r, ErrResponse(e))
                 /\ UNCHANGED calls
            ELSE /\ calls' = [calls EXCEPT ![r] =
                        Append(@, FetchCall(channel_id, message_id, env.value))]
                 /\ pc' = [pc EXCEPT ![r] = "fetching"]
                 /\ UNCHANGED response
    /\ UNCHANGED <<env, fetched, checks, dl, buf, sf, fs, bot>>

\* the answer to the message fetch arrives: the rest of fetch_message, then
\* discord_pull up to the next suspension (send() in download_attachment)
FetchResponse(r, resp) ==
    /\ pc[r] = "fetching"
    /\ fetched' = [fetched EXCEPT ![r] = resp]
    /\ LET e == fetch_result(resp)
           found == find_pcap(resp.body.attachments)
           c1 == IF fetch_checked(resp)
                 THEN <<[by |-> "fetch_message", calls |-> Len(calls[r])]>>
                 ELSE <<>>
           c2 == <<[by |-> "discord_pull", calls |-> Len(calls[r])]>>
       IN IF e # NoError
          THEN /\ Respond(r, ErrResponse(e))
               /\ checks' = [checks EXCEPT ![r] = @ \o c1]
               /\ UNCHANGED calls
          ELSE /\ checks' = [checks EXCEPT ![r] = @ \o c1 \o c2]
               /\ IF found = 0
                  THEN /\ Respond(r, ErrResponse(
                                Err(400, "No PCAP attachments found in message")))
                       /\ UNCHANGED calls
                  ELSE /\ calls' = [calls EXCEPT ![r] =
                              Append(@, DownloadCall(resp.body.attachments[found].url))]
                       /\ pc' = [pc EXCEPT ![r] = "downloading"]
                       /\ UNCHANGED response
    /\ UNCHANGED <<env, params, dl, buf, sf, fs, bot>>

----------------------------------------------------------------------------
(* download_attachment *)

\* response.content_length().unwrap_or(0) as usize, usize being 64 bits wide
content_length_or_0(resp) ==
    IF resp.content_length.some THEN resp.content_length.len ELSE 0

too_large_ge(content_length) == content_length >= MAX_ATTACHMENT_SIZE

too_large(content_length) == content_length > MAX_ATTACHMENT_SIZE

\* the answer to the download arrives: download_attachment up to bytes()
DownloadResponse(r, resp) ==
    /\ pc[r] = "downloading"
    /\ dl' = [dl EXCEPT ![r] = resp]
    /\ IF resp.kind = "transport_error"
       THEN Respond(r, ErrResponse(Err(500, "Failed to download attachment")))
       ELSE IF is_success(resp.status)
       THEN IF too_large(content_length_or_0(resp))
            THEN Respond(r, ErrResponse(
                    Err(400, "Attachment exceeds maximum size limit (100 MB)")))
            ELSE /\ pc' = [pc EXCEPT ![r] = "reading"]
                 /\ UNCHANGED response
       ELSE Respond(r, ErrResponse(Err(500, "Failed to download attachment")))
    /\ UNCHANGED <<env, params, calls, fetched, checks, buf, sf, fs, bot>>

\* response.bytes() takes the next chunk of the body into memory
ReadChunk(r) ==
    /\ pc[r] = "reading"
    /\ Len(buf[r]) < Len(dl[r].chunks)
    /\ buf' = [buf EXCEPT ![r] = Append(@, dl[r].chunks[Len(@) + 1])]
    /\ UNCHANGED <<env, pc, params, calls, fetched, checks, dl, response, sf, fs, bot>>

\* bytes.to_vec()
to_vec_first(bytes) == IF bytes = <<>> THEN <<>> ELSE <<Head(bytes)>>

to_vec(bytes) == bytes

\* the body ends: response.bytes() returns, and discord_pull with it
ReadEnd(r) ==
    /\ pc[r] = "reading"
    /\ Len(buf[r]) = Len(dl[r].chunks)
    /\ IF dl[r].read_error
       THEN Respond(r, ErrResponse(Err(500, "Failed to read attachment")))
       ELSE Respond(r, OkResponse(to_vec(buf[r])))
    /\ UNCHANGED <<env, params, calls, fetched, checks, dl, buf, sf, fs, bot>>

----------------------------------------------------------------------------
(* What the callers and upstream can supply *)

\* longest attachment list of a message
MaxAttachments == 3

NotesTxt == <<"n", "o", "t", "e", "s", ".", "t", "x", "t">>

TracePcapng == <<"t", "r", "a", "c", "e", ".", "p", "c", "a", "p", "n", "g">>

Trace2Pcap == <<"t", "r", "a", "c", "e", "2", ".", "p", "c", "a", "p">>

TraceUpper == <<"t", "r", "a", "c", "e", ".", "P", "C", "A", "P">>

Filenames == {NotesTxt, TracePcapng, Trace2Pcap, TraceUpper}

\* attachment lists: the url of the i-th attachment is written i
ListOf(names) == [i \in 1..Len(names) |-> [filename |-> names[i], url |-> i]]

AttachmentLists ==
    {ListOf(names) : names \in UNION {[1..n -> Filenames] : n \in 0..MaxAttachments}}

ValidId == DigitString(18)

IdInputs ==
    {ValidId, DigitString(16), DigitString(20), [DigitString(17) EXCEPT ![9] = "a"]}

\* a response body: its text, whether it deserializes as DiscordMessage, and
\* the attachments of the message it deserializes to
TextBody(text) == [text |-> text, schema_ok |-> FALSE, attachments |-> <<>>]

MessageBody(attachments) ==
    [text |-> "message json", schema_ok |-> TRUE, attachments |-> attachments]

TextBodies == {TextBody("upstream text A"), TextBody("upstream text B")}

Bodies == TextBodies \cup {MessageBody(a) : a \in AttachmentLists}

NoFetch == [kind |-> "none", status |-> 0, body |-> TextBody("")]

FetchTransportError == [kind |-> "transport_error", status |-> 0, body |-> TextBody("")]

FetchStatuses == {200, 299, 300, 401, 403, 404, 500}

FetchResponses ==
    {FetchTransportError}
    \cup [kind : {"response"}, status : FetchStatuses, body : Bodies]

\* download bodies arrive in chunks; a chunk is written as its length in bytes
ChunkSizes == {1, MAX_ATTACHMENT_SIZE}

ChunkSeqs == UNION {[1..n -> ChunkSizes] : n \in 0..MaxChunks}

RECURSIVE Sum(_)
Sum(q) == IF q = <<>> THEN 0 ELSE Head(q) + Sum(Tail(q))

NoLength == [some |-> FALSE, len |-> 0]

Length(n) == [some |-> TRUE, len |-> n]

DeclaredLengths ==
    {NoLength} \cup {Length(Sum(q)) : q \in ChunkSeqs}

\* HTTP framing: a body with a declared length ends after that many bytes,
\* and ending before them is a read error
WellFramed(resp) ==
    resp.content_length.some =>
        IF resp.read_error
        THEN Sum(resp.chunks) < resp.content_length.len
        ELSE Sum(resp.chunks) = resp.content_length.len

NoDownload ==
    [kind |-> "none", status |-> 0, content_length |-> NoLength,
     chunks |-> <<>>, read_error |-> FALSE]

DlTransportError ==
    [kind |-> "transport_error", status |-> 0, content_length |-> NoLength,
     chunks |-> <<>>, read_error |-> FALSE]

DlStatuses == {200, 404}

DownloadResponses ==
    {DlTransportError}
    \cup {resp \in [kind : {"response"}, status : DlStatuses,
                    content_length : DeclaredLengths, chunks : ChunkSeqs,
                    read_error : BOOLEAN] : WellFramed(resp)}

----------------------------------------------------------------------------
(* One invocation of discord_pull, with every input above *)

PullInit ==
    /\ env \in EnvValues
    /\ pc = [r \in Reqs |-> "idle"]
    /\ params = [r \in Reqs |-> [channel_id |-> <<>>, message_id |-> <<>>]]
    /\ calls = [r \in Reqs |-> <<>>]
    /\ fetched = [r \in Reqs |-> NoFetch]
    /\ checks = [r \in Reqs |-> <<>>]
    /\ dl = [r \in Reqs |-> NoDownload]
    /\ buf = [r \in Reqs |-> <<>>]
    /\ response = [r \in Reqs |-> NoResponse]

SfOff == [s |-> <<>>, called |-> TRUE, result |-> FALSE]

Init ==
    /\ PullInit
    /\ sf = SfOff
    /\ fs = FsOff
    /\ bot = BotOff

Next ==
    \/ \E channel_id, message_id \in IdInputs : DiscordPull(1, channel_id, message_id)
    \/ \E resp \in FetchResponses : FetchResponse(1, resp)
    \/ \E resp \in DownloadResponses : DownloadResponse(1, resp)
    \/ ReadChunk(1)
    \/ ReadEnd(1)

Spec == Init /\ [][Next]_vars

----------------------------------------------------------------------------
(* NumReqs concurrent invocations of discord_pull, with fewer inputs each *)

ConcIds == {ValidId, DigitString(16)}

ConcBodies ==
    TextBodies \cup {MessageBody(ListOf(<<NotesTxt>>)), MessageBody(ListOf(<<Trace2Pcap>>))}

ConcFetchResponses ==
    {FetchTransportError}
    \cup [kind : {"response"}, status : {200, 404, 500}, body : ConcBodies]

ConcDownloadResponses ==
    {DlTransportError}
    \cup {[kind |-> "response", status |-> 404, content_length |-> NoLength,
           chunks |-> <<>>, read_error |-> FALSE],
          [kind |-> "response", status |-> 200, content_length |-> NoLength,
           chunks |-> <<MAX_ATTACHMENT_SIZE, 1>>, read_error |-> FALSE],
          [kind |-> "response", status |-> 200, content_length |-> NoLength,
           chunks |-> <<1>>, read_error |-> TRUE],
          [kind |-> "response", status |-> 200, content_length |-> Length(1),
           chunks |-> <<1>>, read_error |-> FALSE],
          [kind |-> "response", status |-> 200,
           content_length |-> Length(MAX_ATTACHMENT_SIZE + 1),
           chunks |-> <<MAX_ATTACHMENT_SIZE, 1>>, read_error |-> FALSE]}

NextConc ==
    \E r \in Reqs :
        \/ \E channel_id, message_id \in ConcIds : DiscordPull(r, channel_id, message_id)
        \/ \E resp \in ConcFetchResponses : FetchResponse(r, resp)
        \/ \E resp \in ConcDownloadResponses : DownloadResponse(r, resp)
        \/ ReadChunk(r)
        \/ ReadEnd(r)

SpecConc == Init /\ [][NextConc]_vars

----------------------------------------------------------------------------
(* is_valid_snowflake alone, on every input of SnowflakeInputs *)

InitSnowflake ==
    /\ SfInit
    /\ PullInit
    /\ env = [ok |-> TRUE, value |-> "token"]
    /\ fs = FsOff
    /\ bot = BotOff

NextSnowflake == Validate

SpecSnowflake == InitSnowflake /\ [][NextSnowflake]_vars

----------------------------------------------------------------------------
(* Properties *)

Done(r) == pc[r] = "done"

\* a string of 17 to 19 characters, each one of the ten ASCII digits
SnowflakeShape(s) ==
    /\ Len(s) >= 17
    /\ Len(s) <= 19
    /\ \A i \in 1..Len(s) : s[i] \in {"0", "1", "2", "3", "4", "5", "6", "7", "8", "9"}

\* C1: is_valid_snowflake(s) is true exactly when s has 17 to 19 characters
\* and every one of them is an ASCII decimal digit.
C1_SnowflakeIff ==
    sf.called => (sf.result <=> SnowflakeShape(sf.s))

\* a 19-digit string was accepted
C1_Witness ==
    /\ sf.called
    /\ sf.result
    /\ Len(sf.s) = 19

BadIds(r) ==
    \/ ~SnowflakeShape(params[r].channel_id)
    \/ ~SnowflakeShape(params[r].message_id)

Qualifies(f) ==
    LET n == Len(f) IN
    \/ /\ n >= 5
       /\ <<f[n - 4], f[n - 3], f[n - 2], f[n - 1], f[n]>> = <<".", "p", "c", "a", "p">>
    \/ /\ n >= 7
       /\ <<f[n - 6], f[n - 5], f[n - 4], f[n - 3], f[n - 2], f[n - 1], f[n]>>
            = <<".", "p", "c", "a", "p", "n", "g">>

TwoXX(status) == status \in 200..299

Answered(r) == fetched[r].kind = "response"

Downloaded(r) == dl[r].kind = "response"

\* the message fetch of r came back 2xx with a body that deserializes
GotMessage(r) ==
    Answered(r) /\ TwoXX(fetched[r].status) /\ fetched[r].body.schema_ok

SomeQualifies(r) ==
    \E i \in 1..Len(fetched[r].body.attachments) :
        Qualifies(fetched[r].body.attachments[i].filename)

\* the kind of failure, of the taxonomy, that a finished request met first
Kind(r) ==
    CASE ~env.ok -> "CredentialMissing"
      [] env.ok /\ BadIds(r) -> "BadIdentifier"
      [] fetched[r].kind = "transport_error" -> "UpstreamUnreachable"
      [] Answered(r) /\ fetched[r].status = 401 -> "CredentialRejected"
      [] Answered(r) /\ fetched[r].status = 403 -> "Forbidden"
      [] Answered(r) /\ fetched[r].status = 404 -> "NotFound"
      [] Answered(r) /\ ~TwoXX(fetched[r].status)
            /\ fetched[r].status \notin {401, 403, 404} -> "UpstreamOther"
      [] Answered(r) /\ TwoXX(fetched[r].status)
            /\ ~fetched[r].body.schema_ok -> "UpstreamBadResponse"
      [] GotMessage(r) /\ ~SomeQualifies(r) -> "NoMatchingAttachment"
      [] dl[r].kind = "transport_error" -> "DownloadFailed"
      [] Downloaded(r) /\ ~TwoXX(dl[r].status) -> "DownloadFailed"
      [] Downloaded(r) /\ TwoXX(dl[r].status) /\ dl[r].content_length.some
            /\ dl[r].content_length.len > 104857600 -> "PayloadTooLarge"
      [] Downloaded(r) /\ TwoXX(dl[r].status) /\ dl[r].read_error
            /\ ~(dl[r].content_length.some /\ dl[r].content_length.len > 104857600)
            -> "DownloadFailed"
      [] OTHER -> "None"

\* the external status of each kind
StatusOf(kind) ==
    CASE kind \in {"BadIdentifier", "NoMatchingAttachment", "PayloadTooLarge"} -> 400
      [] kind \in {"CredentialMissing", "CredentialRejected"} -> 401
      [] kind = "Forbidden" -> 403
      [] kind = "NotFound" -> 404
      [] kind \in {"UpstreamUnreachable", "UpstreamBadResponse", "UpstreamOther",
                   "DownloadFailed"} -> 500
      [] OTHER -> 200

\* C3: a request that fails ends with the status of the kind of its failure
\* (credential missing 401, upstream 401/403/404 the same, other non-2xx,
\* transport and parse failures 500, no capture file and oversize 400, download
\* failures 500); a failing request never ends with 200 or any other status.
C3_StatusOfKind ==
    \A r \in Reqs :
        Done(r) =>
            /\ response[r].status = StatusOf(Kind(r))
            /\ Kind(r) # "None" =>
                /\ response[r].status \in {400, 401, 403, 404, 500}
                /\ response[r].error # ""
                /\ response[r].body = <<>>
            /\ response[r].status = 200 <=> Kind(r) = "None"

\* upstream answered the message fetch with 403 and the request ended with 403
C3_Witness ==
    /\ Done(1)
    /\ Answered(1)
    /\ fetched[1].status = 403
    /\ response[1].status = 403

\* C4: the outbound calls of a request are a prefix of <<message fetch,
\* download>>, each made at most once, the download only after a 2xx fetch
\* whose body parsed and of which an attachment was selected; a fetch that
\* fails (404 or otherwise) ends the request with that failure's status and a
\* non-empty error message, and no download call.
C4_CallsArePrefix ==
    \A r \in Reqs :
        /\ Len(calls[r]) <= 2
        /\ Len(calls[r]) >= 1 => calls[r][1].kind = "fetch_message"
        /\ Len(calls[r]) = 2 =>
            /\ calls[r][2].kind = "download"
            /\ GotMessage(r)
            /\ \E i \in 1..Len(fetched[r].body.attachments) :
                /\ Qualifies(fetched[r].body.attachments[i].filename)
                /\ calls[r][2].url = fetched[r].body.attachments[i].url
        /\ (fetched[r].kind # "none" /\ ~GotMessage(r)) =>
            /\ Done(r)
            /\ Len(calls[r]) = 1
            /\ response[r].status = StatusOf(Kind(r))
            /\ response[r].status # 200
            /\ response[r].error # ""
        /\ (Answered(r) /\ fetched[r].status = 404) => response[r].status = 404
        /\ pc[r] \in {"downloading", "reading"} => Len(calls[r]) = 2
        /\ pc[r] = "fetching" => Len(calls[r]) = 1

\* upstream answered 404 with a body that holds a capture-file attachment,
\* and the request ended with 404 after its one call
C4_Witness ==
    /\ Done(1)
    /\ Answered(1)
    /\ fetched[1].status = 404
    /\ fetched[1].body.schema_ok
    /\ SomeQualifies(1)
    /\ response[1].status = 404
    /\ Len(calls[1]) = 1

\* C5: the attachment downloaded is the first one, in upstream's order, whose
\* filename ends with .pcap or .pcapng in exactly that case; of notes.txt,
\* trace.pcapng, trace2.pcap it is trace.pcapng; trace.PCAP is never chosen.
C5_FirstQualifying ==
    \A r \in Reqs :
        Len(calls[r]) = 2 =>
            LET atts == fetched[r].body.attachments
                url == calls[r][2].url
            IN /\ \E i \in 1..Len(atts) :
                    /\ atts[i].url = url
                    /\ Qualifies(atts[i].filename)
                    /\ atts[i].filename # TraceUpper
                    /\ \A j \in 1..(i - 1) : ~Qualifies(atts[j].filename)
               /\ atts = ListOf(<<NotesTxt, TracePcapng, Trace2Pcap>>) => url = 2

\* of notes.txt, trace.pcapng, trace2.pcap the second was downloaded
C5_Witness ==
    /\ Len(calls[1]) = 2
    /\ fetched[1].body.attachments = ListOf(<<NotesTxt, TracePcapng, Trace2Pcap>>)
    /\ calls[1][2].url = 2

NoPcapMessage == "Message has no PCAP attachments (.pcap or .pcapng)"

\* C6 as stated: a request whose message fetch succeeded evaluates the
\* capture-file check exactly once, before any download, and ends with the
\* 400 "no matching attachment" failure when the check fails.
C6_CheckedExactlyOnce ==
    \A r \in Reqs :
        GotMessage(r) =>
            /\ Len(checks[r]) = 1
            /\ \A k \in 1..Len(checks[r]) : checks[r][k].calls = 1
            /\ ~SomeQualifies(r) =>
                (Done(r) /\ response[r].status = 400 /\ Len(calls[r]) = 1)

\* C6 amended: a request whose message fetch succeeded evaluates the
\* capture-file check before any download is attempted, once in fetch_message
\* and, when that one passes, a second time in discord_pull; when the check
\* fails (which only the first evaluation can) the request ends with the 400
\* "no matching attachment" failure of fetch_message and no download.
C6_CheckedBeforeDownload ==
    \A r \in Reqs :
        /\ GotMessage(r) =>
            /\ Len(checks[r]) \in {1, 2}
            /\ checks[r][1].by = "fetch_message"
            /\ \A k \in 1..Len(checks[r]) : checks[r][k].calls = 1
            /\ ~SomeQualifies(r) =>
                /\ Len(checks[r]) = 1
                /\ Done(r)
                /\ response[r].status = 400
                /\ response[r].error = NoPcapMessage
                /\ Len(calls[r]) = 1
            /\ SomeQualifies(r) =>
                /\ Len(checks[r]) = 2
                /\ checks[r][2].by = "discord_pull"
                /\ Len(calls[r]) = 2
        /\ ~GotMessage(r) => checks[r] = <<>>
        /\ response[r].error # "No PCAP attachments found in message"

\* a message without a capture file was checked once and refused with 400
C6_Witness ==
    /\ GotMessage(1)
    /\ ~SomeQualifies(1)
    /\ fetched[1].body.attachments # <<>>
    /\ Len(checks[1]) = 1
    /\ Done(1)
    /\ response[1].error = NoPcapMessage

\* C7: a 2xx download that declares a length above 104,857,600 fails with
\* PayloadTooLarge (400) before any byte of the body is read; one that declares
\* exactly 104,857,600 or less passes the size check, its body is read and,
\* read to its end, returned.
C7_DeclaredSize ==
    \A r \in Reqs :
        (Downloaded(r) /\ TwoXX(dl[r].status) /\ dl[r].content_length.some) =>
            IF dl[r].content_length.len > 104857600
            THEN /\ Done(r)
                 /\ response[r].status = 400
                 /\ response[r].error = "Attachment exceeds maximum size limit (100 MB)"
                 /\ buf[r] = <<>>
            ELSE /\ response[r].status # 400
                 /\ pc[r] \in {"reading", "done"}
                 /\ Done(r) =>
                    /\ buf[r] = dl[r].chunks
                    /\ ~dl[r].read_error =>
                        (response[r].status = 200 /\ response[r].body = dl[r].chunks)

\* a download that declared exactly 104,857,600 bytes was read and returned
C7_Witness ==
    /\ Done(1)
    /\ Downloaded(1)
    /\ dl[1].content_length = Length(104857600)
    /\ response[1].status = 200
    /\ Sum(response[1].body) = 104857600

\* C8: in every state, the bytes held for each download in flight and every
\* payload returned are at most 104,857,600 bytes, whatever the number of
\* concurrent requests, also when no content length is declared.
C8_CeilingOnObservedBytes ==
    \A r \in Reqs :
        /\ Sum(buf[r]) <= 104857600
        /\ Sum(response[r].body) <= 104857600

\* C9: valid identifiers, a configured credential, a 2xx parsable message with
\* a qualifying attachment and a download of its url that succeeds under the
\* ceiling give 200 with exactly the bytes the download returned.
C9_ExactBytes ==
    \A r \in Reqs :
        (/\ Done(r)
         /\ env.ok
         /\ ~BadIds(r)
         /\ GotMessage(r)
         /\ SomeQualifies(r)
         /\ Downloaded(r)
         /\ TwoXX(dl[r].status)
         /\ ~dl[r].read_error
         /\ Sum(dl[r].chunks) <= 104857600) =>
            /\ response[r].status = 200
            /\ response[r].error = ""
            /\ response[r].body = dl[r].chunks
            /\ Len(calls[r]) = 2

\* a body of two chunks was returned whole with 200
C9_Witness ==
    /\ Done(1)
    /\ response[1].status = 200
    /\ Len(dl[1].chunks) = 2
    /\ Sum(dl[1].chunks) <= 104857600
    /\ response[1].body = dl[1].chunks

\* the constant error messages of discord_pull, fetch_message and
\* download_attachment
ErrorMessages ==
    {"Discord OAuth token not configured",
     "Invalid channel ID format",
     "Invalid message ID format",
     "Failed to connect to Discord API",
     "Failed to parse Discord response",
     "Message has no PCAP attachments (.pcap or .pcapng)",
     "Discord authentication failed (invalid or missing token)",
     "Discord message not found",
     "Access denied to Discord message",
     "Discord API error",
     "No PCAP attachments found in message",
     "Failed to download attachment",
     "Attachment exceeds maximum size limit (100 MB)",
     "Failed to read attachment"}

Failed(r) == Done(r) /\ response[r].status # 200

\* two requests that differ at most in the bodies upstream sent: the same
\* identifiers, and the same outcome, status and headers of both calls
SameButBodies(r1, r2) ==
    /\ params[r1] = params[r2]
    /\ fetched[r1].kind = fetched[r2].kind
    /\ fetched[r1].status = fetched[r2].status
    /\ dl[r1].kind = dl[r2].kind
    /\ dl[r1].status = dl[r2].status
    /\ dl[r1].content_length = dl[r2].content_length
    /\ dl[r1].read_error = dl[r2].read_error

\* what a 2xx message body decides: whether it parses, and whether it lists
\* a capture file
BodyClass(r) ==
    IF ~fetched[r].body.schema_ok THEN "unparsable"
    ELSE IF ~SomeQualifies(r) THEN "no capture file"
    ELSE "capture file"

\* C10 as stated: two failing requests that differ only in the body text
\* upstream returned end with the same status and the same error message, and
\* every error message is one of a fixed set of constant strings.
C10_BodyNeverMatters ==
    /\ \A r \in Reqs : Failed(r) => response[r].error \in ErrorMessages
    /\ \A r1, r2 \in Reqs :
        (Failed(r1) /\ Failed(r2) /\ SameButBodies(r1, r2)) =>
            /\ response[r1].status = response[r2].status
            /\ response[r1].error = response[r2].error

\* C10 amended: every error message is one of a fixed set of constant strings
\* and never the text of an upstream body; two failing requests that differ
\* only in the body text upstream returned end with the same status and error
\* message whenever the message fetch was not answered 2xx or the two 2xx
\* bodies agree on whether they parse and on whether they list a capture file
\* (an unparsable 2xx body gives 500, one without a capture file 400).
C10_OnlyErrorBodiesIgnored ==
    /\ \A r \in Reqs :
        Failed(r) =>
            /\ response[r].error \in ErrorMessages
            /\ response[r].error # fetched[r].body.text
    /\ \A r1, r2 \in Reqs :
        (/\ Failed(r1)
         /\ Failed(r2)
         /\ SameButBodies(r1, r2)
         /\ (Answered(r1) /\ TwoXX(fetched[r1].status)) =>
                BodyClass(r1) = BodyClass(r2)) =>
            /\ response[r1].status = response[r2].status
            /\ response[r1].error = response[r2].error

\* two requests answered 500 by upstream with different body texts ended alike
C10_Witness ==
    /\ Failed(1)
    /\ Failed(2)
    /\ SameButBodies(1, 2)
    /\ fetched[1].status = 500
    /\ fetched[1].body.text = "upstream text A"
    /\ fetched[2].body.text = "upstream text B"
    /\ response[1] = response[2]

----------------------------------------------------------------------------
(* find_server (bot.rs) *)

\* longest server list given to find_server
MaxServers == 2

UpperAscii ==
    <<"A", "B", "C", "D", "E", "F", "G", "H", "I", "J", "K", "L", "M",
      "N", "O", "P", "Q", "R", "S", "T", "U", "V", "W", "X", "Y", "Z">>

LowerAscii ==
    <<"a", "b", "c", "d", "e", "f", "g", "h", "i", "j", "k", "l", "m",
      "n", "o", "p", "q", "r", "s", "t", "u", "v", "w", "x", "y", "z">>

\* u8::to_ascii_lowercase, on a character
to_ascii_lowercase(c) ==
    IF \E k \in 1..26 : UpperAscii[k] = c
    THEN LowerAscii[CHOOSE k \in 1..26 : UpperAscii[k] = c]
    ELSE c

\* char::to_lowercase: U+00C9 (E-acute) is the capital of U+00E9
char_to_lowercase(c) ==
    IF c = "U+00C9" THEN "U+00E9" ELSE to_ascii_lowercase(c)

\* str::to_lowercase
to_lowercase(s) == [i \in 1..Len(s) |-> char_to_lowercase(s[i])]

\* str::eq_ignore_ascii_case
eq_case_sensitive(a, b) == a = b

eq_ignore_ascii_case(a, b) ==
    /\ Len(a) = Len(b)
    /\ \A i \in 1..Len(a) : to_ascii_lowercase(a[i]) = to_ascii_lowercase(b[i])

\* similarity scores are written in thousandths
SIMILARITY_THRESHOLD == 800

\* (s.name.len() as f64 * MIN_QUERY_LENGTH_RATIO).ceil() as usize
min_length_floor(name) == str_len(name) \div 2

min_length(name) == (str_len(name) + 1) \div 2

\* servers.iter().find(|s| s.name.eq_ignore_ascii_case(query)): position, 0 for None
exact_match(servers, query) ==
    LET hits == {i \in 1..Len(servers) : eq_ignore_ascii_case(servers[i].name, query)}
    IN IF hits = {} THEN 0 ELSE CHOOSE i \in hits : \A j \in hits : i <= j

\* .filter(|s| query.len() >= min_length): the positions that pass, in order
RECURSIVE gated_from(_, _, _)
gated_from(servers, query, i) ==
    IF i > Len(servers) THEN <<>>
    ELSE (IF str_len(query) >= min_length(servers[i].name) THEN <<i>> ELSE <<>>)
         \o gated_from(servers, query, i + 1)

\* .map(|s| (s, strsim::jaro_winkler(&s.name.to_lowercase(), &query.to_lowercase())))
\* sim is the value strsim::jaro_winkler returns, for the lowercased query
scored(servers, sim, positions) ==
    [k \in 1..Len(positions) |->
        [server |-> positions[k],
         similarity |-> sim[to_lowercase(servers[positions[k]].name)]]]

\* .filter(|(_, similarity)| *similarity >= SIMILARITY_THRESHOLD)
keeps_above(similarity) == similarity > SIMILARITY_THRESHOLD

keeps(similarity) == similarity >= SIMILARITY_THRESHOLD

\* Iterator::max_by(|(_, a), (_, b)| a.partial_cmp(b).unwrap()): a fold that
\* keeps the running maximum only when it compares Greater than the next item
RECURSIVE fold_keep_first(_, _)
fold_keep_first(best, rest) ==
    IF rest = <<>> THEN best
    ELSE fold_keep_first(
            IF best.similarity >= Head(rest).similarity THEN best ELSE Head(rest),
            Tail(rest))

max_by_first(pairs) ==
    IF pairs = <<>> THEN [server |-> 0, similarity |-> 0]
    ELSE fold_keep_first(Head(pairs), Tail(pairs))

RECURSIVE fold_max(_, _)
fold_max(best, rest) ==
    IF rest = <<>> THEN best
    ELSE fold_max(
            IF best.similarity > Head(rest).similarity THEN best ELSE Head(rest),
            Tail(rest))

max_by(pairs) ==
    IF pairs = <<>> THEN [server |-> 0, similarity |-> 0]
    ELSE fold_max(Head(pairs), Tail(pairs))

\* find_server: the position of the server returned, 0 for None
find_server(servers, query, sim) ==
    IF exact_match(servers, query) # 0
    THEN exact_match(servers, query)
    ELSE max_by(SelectSeq(scored(servers, sim, gated_from(servers, query, 1)),
                          LAMBDA p : keeps(p.similarity))).server

\* server names and queries
Alpha == <<"A", "l", "p", "h", "a">>

AlphaDash2 == <<"a", "l", "p", "h", "a", "-", "2">>

Lighthouse == <<"L", "i", "g", "h", "t", "h", "o", "u", "s", "e">>

EeAbc == <<"U+00E9", "U+00E9", "a", "b", "c">>

ServerNames == {Alpha, AlphaDash2, Lighthouse, EeAbc}

Queries ==
    {<<"A", "L", "P", "H", "A">>,
     <<"L", "i", "g">>,
     <<"L", "i", "g", "h", "t">>,
     <<"a", "l", "p", "h", "a", "-">>,
     <<"U+00E9", "U+00E9">>}

\* the i-th server of a list has host i
ServersOf(names) == [i \in 1..Len(names) |-> [name |-> names[i], host |-> i]]

ServerLists ==
    {ServersOf(names) : names \in UNION {[1..n -> ServerNames] : n \in 0..MaxServers}}

LoweredNames == {to_lowercase(n) : n \in ServerNames}

Scores == {799, 800, 900, 1000}

\* the strings have a character in common
Overlap(a, b) == \E i \in 1..Len(a), j \in 1..Len(b) : a[i] = b[j]

\* what jaro_winkler may return: identical strings score 1.0, and strings
\* without a character in common (no match to count) score 0.0
SimTables(query) ==
    {t \in [LoweredNames -> Scores \cup {0}] :
        \A n \in LoweredNames :
            /\ n = to_lowercase(query) => t[n] = 1000
            /\ t[n] = 0 <=> ~Overlap(n, to_lowercase(query))}

InitResolver ==
    /\ PullInit
    /\ env = [ok |-> TRUE, value |-> "token"]
    /\ sf = SfOff
    /\ bot = BotOff
    /\ \E servers \in ServerLists, query \in Queries :
        \E sim \in SimTables(query) :
            fs = [servers |-> servers, query |-> query, sim |-> sim,
                  called |-> FALSE, result |-> 0]

\* one call of find_server
Resolve ==
    /\ ~fs.called
    /\ fs' = [fs EXCEPT !.called = TRUE,
                        !.result = find_server(fs.servers, fs.query, fs.sim)]
    /\ UNCHANGED <<pullVars, sf, bot>>

NextResolver == Resolve

SpecResolver == InitResolver /\ [][NextResolver]_vars

----------------------------------------------------------------------------
(* Properties of find_server *)

SameUnderAsciiFold(a, b) ==
    /\ Len(a) = Len(b)
    /\ \A i \in 1..Len(a) : to_ascii_lowercase(a[i]) = to_ascii_lowercase(b[i])

\* the positions of the servers whose name equals the query under ASCII folding
ExactHits ==
    {i \in 1..Len(fs.servers) : SameUnderAsciiFold(fs.servers[i].name, fs.query)}

Least(S) == CHOOSE i \in S : \A j \in S : i <= j

Greatest(S) == CHOOSE i \in S : \A j \in S : j <= i

\* find_server took the fuzzy path
Fuzzy == fs.called /\ ExactHits = {}

ScoreOf(i) == fs.sim[to_lowercase(fs.servers[i].name)]

\* half the name's length in bytes, rounded up, is at most the query's
PassesGate(i) == (str_len(fs.servers[i].name) + 1) \div 2 <= str_len(fs.query)

Survivors == {i \in 1..Len(fs.servers) : PassesGate(i) /\ ScoreOf(i) >= 800}

\* C11: when some server's name equals the query under ASCII case folding,
\* find_server returns the first such server in input order, whatever the
\* fuzzy scores of the other servers.
C11_ExactFirst ==
    (fs.called /\ ExactHits # {}) => fs.result = Least(ExactHits)

\* servers Alpha, alpha-2 and query ALPHA: the first is returned although the
\* second scores 0.9
C11_Witness ==
    /\ fs.called
    /\ fs.servers = ServersOf(<<Alpha, AlphaDash2>>)
    /\ fs.query = <<"A", "L", "P", "H", "A">>
    /\ ScoreOf(2) = 900
    /\ fs.result = 1

\* C12 as stated: on the fuzzy path a server is returned only if half the
\* number of characters of its name, rounded up, is at most the number of
\* characters of the query.
C12_GateInCharacters ==
    (Fuzzy /\ fs.result # 0) =>
        (Len(fs.servers[fs.result].name) + 1) \div 2 <= Len(fs.query)

\* C12 amended: on the fuzzy path a server is returned only if half the length
\* of its name, rounded up, is at most the length of the query, both lengths
\* taken in bytes of UTF-8 (the number of characters for ASCII text).
C12_GateInBytes ==
    (Fuzzy /\ fs.result # 0) =>
        (str_len(fs.servers[fs.result].name) + 1) \div 2 <= str_len(fs.query)

\* Lighthouse was returned for the five-character query Light
C12_Witness ==
    /\ Fuzzy
    /\ fs.result # 0
    /\ fs.servers[fs.result].name = Lighthouse
    /\ fs.query = <<"L", "i", "g", "h", "t">>

\* C13: on the fuzzy path, gated candidates that score below 0.8 are
\* discarded and one that scores exactly 0.8 is kept; the result is a survivor
\* of the highest score among survivors, and it is none exactly when there is
\* no survivor.
C13_ThresholdAndMax ==
    Fuzzy =>
        /\ fs.result = 0 <=> Survivors = {}
        /\ fs.result # 0 =>
            /\ fs.result \in Survivors
            /\ \A j \in Survivors : ScoreOf(j) <= ScoreOf(fs.result)

\* a candidate scoring exactly 0.8 was returned, one scoring 0.799 discarded
C13_Witness ==
    /\ Fuzzy
    /\ fs.result # 0
    /\ ScoreOf(fs.result) = 800
    /\ \E j \in 1..Len(fs.servers) : PassesGate(j) /\ ScoreOf(j) = 799

\* the survivors that share the highest score
Tied == {i \in Survivors : \A j \in Survivors : ScoreOf(j) <= ScoreOf(i)}

\* C14 as stated: when two or more survivors share the highest score,
\* find_server returns the one that comes earliest in the server list.
C14_TieKeepsFirst ==
    (Fuzzy /\ Cardinality(Tied) >= 2) => fs.result = Least(Tied)

\* C14 amended: when two or more survivors share the highest score,
\* find_server returns the one that comes latest in the server list.
C14_TieKeepsLast ==
    (Fuzzy /\ Cardinality(Tied) >= 2) => fs.result = Greatest(Tied)

\* two servers of different names tied, and the second was returned
C14_Witness ==
    /\ Fuzzy
    /\ Cardinality(Tied) >= 2
    /\ fs.servers[1].name # fs.servers[2].name
    /\ fs.result = 2

----------------------------------------------------------------------------
(* Handler::message (bot.rs) and Database::log_command (db.rs) *)

\* str::contains
contains(s, sub) ==
    \E k \in 1..(Len(s) - Len(sub) + 1) : SubSeq(s, k, k + Len(sub) - 1) = sub

\* msg.attachments.iter().find(|a| a.filename.to_lowercase().contains(".pcap")):
\* the position found, 0 for None
detect_pcap_suffix(attachments) ==
    LET hits == {i \in 1..Len(attachments) :
                    ends_with(to_lowercase(attachments[i].filename), DotPcap)}
    IN IF hits = {} THEN 0 ELSE CHOOSE i \in hits : \A j \in hits : i <= j

detect_pcap(attachments) ==
    LET hits == {i \in 1..Len(attachments) :
                    contains(to_lowercase(attachments[i].filename), DotPcap)}
    IN IF hits = {} THEN 0 ELSE CHOOSE i \in hits : \A j \in hits : i <= j

\* format!("{}?channel={}&msg={}", self.web_url, msg.channel_id, msg.id)
web_link(msg) == <<"WEB_URL", "?channel=", msg.channel_id, "&msg=", msg.id>>

NoMessageText == [some |-> FALSE, value |-> ""]

\* msg.reply(&ctx.http, reply)
ReplyAttempt(msg) ==
    [kind |-> "reply", link |-> web_link(msg), command_name |-> "",
     channel_id |-> msg.channel_id, message_id |-> msg.id,
     success |-> FALSE, error_message |-> NoMessageText]

\* the CommandLog handed to self.db.log_command, which inserts it as one row
command_log_always_ok(msg, success) ==
    [kind |-> "log_command", link |-> <<>>, command_name |-> "pcap_detect",
     channel_id |-> msg.channel_id, message_id |-> msg.id,
     success |-> TRUE, error_message |-> NoMessageText]

command_log(msg, success) ==
    [kind |-> "log_command", link |-> <<>>, command_name |-> "pcap_detect",
     channel_id |-> msg.channel_id, message_id |-> msg.id,
     success |-> success,
     error_message |-> IF success THEN NoMessageText
                       ELSE [some |-> TRUE, value |-> "Failed to send reply"]]

\* Handler::message from its entry to msg.reply(..).await, or to its return
Message(msg) ==
    /\ bot.pc = "idle"
    /\ IF msg.author_bot
       THEN bot' = [bot EXCEPT !.pc = "done", !.msg = msg]
       ELSE IF detect_pcap(msg.attachments) = 0
       THEN bot' = [bot EXCEPT !.pc = "done", !.msg = msg]
       ELSE bot' = [bot EXCEPT !.pc = "replying", !.msg = msg,
                               !.events = Append(@, ReplyAttempt(msg))]
    /\ UNCHANGED <<pullVars, sf, fs>>

\* the reply succeeded or failed: up to self.db.log_command(log).await
ReplyResult(ok) ==
    /\ bot.pc = "replying"
    /\ bot' = [bot EXCEPT !.pc = "logging",
                          !.reply = IF ok THEN "ok" ELSE "err",
                          !.events = Append(@, command_log(bot.msg, ok))]
    /\ UNCHANGED <<pullVars, sf, fs>>

\* the insert succeeded or failed: a failure is logged, and the handler returns
LogResult(ok) ==
    /\ bot.pc = "logging"
    /\ bot' = [bot EXCEPT !.pc = "done", !.logged = IF ok THEN "ok" ELSE "err"]
    /\ UNCHANGED <<pullVars, sf, fs>>

PcapTxt == <<"a", ".", "p", "c", "a", "p", ".", "t", "x", "t">>

BotAttachmentLists ==
    {ListOf(names) :
        names \in UNION {[1..n -> Filenames \cup {PcapTxt}] : n \in 0..MaxAttachments}}

Messages ==
    [author_bot : BOOLEAN, channel_id : {11, 12}, id : {21, 22},
     attachments : BotAttachmentLists]

InitBot ==
    /\ PullInit
    /\ env = [ok |-> TRUE, value |-> "token"]
    /\ sf = SfOff
    /\ fs = FsOff
    /\ bot = [BotOff EXCEPT !.pc = "idle"]

NextBot ==
    \/ \E msg \in Messages : Message(msg)
    \/ \E ok \in BOOLEAN : ReplyResult(ok)
    \/ \E ok \in BOOLEAN : LogResult(ok)

SpecBot == InitBot /\ [][NextBot]_vars

----------------------------------------------------------------------------
(* Properties of Handler::message *)

Handled == bot.pc \in {"replying", "logging", "done"}

\* some attachment of the message would be selected by the retrieval pipeline
Retrievable ==
    \E i \in 1..Len(bot.msg.attachments) : Qualifies(bot.msg.attachments[i].filename)

\* some attachment of the message has .pcap in its lowercased filename
Detected ==
    \E i \in 1..Len(bot.msg.attachments) :
        contains(to_lowercase(bot.msg.attachments[i].filename), <<".", "p", "c", "a", "p">>)

\* C15: for a message not written by a bot, if some attachment's filename ends
\* with .pcap or .pcapng (the retrieval pipeline would select it), the handler
\* detects an attachment and attempts to post the retrieval link for the
\* message's channel id and message id.
C15_RetrievableIsLinked ==
    (Handled /\ ~bot.msg.author_bot /\ Retrievable) =>
        /\ Detected
        /\ Len(bot.events) >= 1
        /\ bot.events[1].kind = "reply"
        /\ bot.events[1].link =
            <<"WEB_URL", "?channel=", bot.msg.channel_id, "&msg=", bot.msg.id>>

\* a message with notes.txt and trace.pcapng got its link
C15_Witness ==
    /\ bot.pc = "done"
    /\ ~bot.msg.author_bot
    /\ bot.msg.attachments = ListOf(<<NotesTxt, TracePcapng>>)
    /\ bot.events[1].kind = "reply"

\* C16: a message written by a bot, or without a detected attachment, causes
\* no reply and no audit-log write; any other message causes exactly one reply
\* attempt followed by exactly one audit-log write attempt, whose success is
\* true exactly when the reply succeeded and whose error_message is absent
\* exactly when success is true; a failed write causes nothing further.
C16_OneReplyOneLog ==
    /\ (Handled /\ (bot.msg.author_bot \/ ~Detected)) =>
            (bot.events = <<>> /\ bot.pc = "done")
    /\ (Handled /\ ~bot.msg.author_bot /\ Detected) =>
        /\ Len(bot.events) \in {1, 2}
        /\ bot.events[1].kind = "reply"
        /\ Len(bot.events) = 1 <=> bot.pc = "replying"
        /\ Len(bot.events) = 2 =>
            /\ bot.events[2].kind = "log_command"
            /\ bot.events[2].channel_id = bot.msg.channel_id
            /\ bot.events[2].message_id = bot.msg.id
            /\ bot.events[2].success <=> bot.reply = "ok"
            /\ bot.events[2].error_message.some <=> ~bot.events[2].success
    /\ bot.logged # "none" => (bot.pc = "done" /\ Len(bot.events) = 2)

\* the reply failed, the write of the failure failed too, and nothing followed
C16_Witness ==
    /\ bot.pc = "done"
    /\ bot.reply = "err"
    /\ bot.logged = "err"
    /\ Len(bot.events) = 2
    /\ ~bot.events[2].success
    /\ bot.events[2].error_message.some

=============================================================================
